---------------------------- MODULE Spec2Model ----------------------------
(***************************************************************************)
(* The registration form of frontend/src/auth/Register.js: the component   *)
(* state (username, email, password, error), the submit handler            *)
(* handleSubmit with its two suspension points (await fetch, await         *)
(* res.json()), the calls it makes to the collaborators login and          *)
(* navigate, and the mounting and unmounting of the component.             *)
(*                                                                         *)
(* Strings that the code only stores and compares (error messages, user    *)
(* and token values, paths) are TLA+ strings.  The three field values are  *)
(* sequences of one-character strings, because the code serialises them    *)
(* with JSON.stringify and the form constraints measure their length.      *)
(***************************************************************************)
EXTENDS Integers, Sequences, FiniteSets, TLC

VARIABLES
    username,   \* useState("") of line 6
    email,      \* useState("") of line 7
    password,   \* useState("") of line 8
    error,      \* useState("") of line 9
    mounted,    \* whether a Register instance is rendered; while none is,
                \* there is no component state and the four variables above
                \* hold their initial values
    location,   \* the router's current path
    reported,   \* the input the browser reported invalid at the last click
                \* on Register, "" if none
    subs,       \* one record per invocation of handleSubmit
    calls,      \* the calls made to login and navigate, in order
    handled     \* the submissions whose handler has ended, in order

vars == <<username, email, password, error, mounted, location, reported,
          subs, calls, handled>>

-----------------------------------------------------------------------------
(* Bounds of the model *)

MaxSubs == 2

-----------------------------------------------------------------------------
(* Values *)

\* JavaScript's undefined, as a value distinct from every string used.
Undefined == "<undefined>"

\* minLength={6} of the password input.
MinLength == 6

\* The path of navigate("/dashboard").
DashboardPath == "/dashboard"
\* The path of <Link to="/login">.
LoginPath == "/login"
\* The route that renders Register.
RegisterPath == "/register"

\* What a user may have typed in the username input.
Usernames == { <<>>, <<" ", "a", "\"">> }
\* What a user may have typed in the email input.
Emails == { <<>>, <<"a">>, <<"a", "@", "b">> }
\* What a user may have typed in the password input.
Passwords == { <<>>,
               <<"1", "2", "3", "4", "5">>,
               <<"p", "\\", "s", " ", "w", "d">> }

\* HTTP statuses the server may answer with: two for which res.ok is true,
\* the last of them included, and the first one after them.
Statuses == {200, 299, 300}

\* The parsed JSON values a response body may hold.  An object is a record
\* of the three properties the code reads; a property the object lacks reads
\* as undefined, as in JavaScript.  The body "null" parses to Null, of which
\* no property can be read.
Obj(u, t, e) == [kind |-> "object", user |-> u, access_token |-> t, error |-> e]
Null == [kind |-> "null", user |-> Undefined, access_token |-> Undefined,
         error |-> Undefined]
\* The data of a submission whose body has not been parsed.
NoData == [kind |-> "none", user |-> Undefined, access_token |-> Undefined,
           error |-> Undefined]
DataValues ==
    { Obj("U1", "T1", Undefined),
      Obj(Undefined, Undefined, "E1"), Obj(Undefined, Undefined, "E2"),
      Obj(Undefined, Undefined, Undefined) }

-----------------------------------------------------------------------------
(* JSON.stringify({ username, email, password }) *)

KeyUsername == <<"u", "s", "e", "r", "n", "a", "m", "e">>
KeyEmail == <<"e", "m", "a", "i", "l">>
KeyPassword == <<"p", "a", "s", "s", "w", "o", "r", "d">>

\* JSON.stringify escapes the quote and the backslash of a string.
EscapeChar(c) ==
    IF c = "\"" THEN <<"\\", "\"">>
    ELSE IF c = "\\" THEN <<"\\", "\\">>
    ELSE <<c>>

RECURSIVE EscapeAll(_)
EscapeAll(s) ==
    IF s = <<>> THEN <<>> ELSE EscapeChar(Head(s)) \o EscapeAll(Tail(s))

JSONQuote(s) == <<"\"">> \o EscapeAll(s) \o <<"\"">>

\* s without the spaces it begins with.
RECURSIVE TrimStart(_)
TrimStart(s) ==
    IF s # <<>> /\ Head(s) = " " THEN TrimStart(Tail(s)) ELSE s

\* Mutant of RequestBody: the username is trimmed before it is sent.
RequestBodyTrimmed(u, e, p) ==
    <<"{">> \o JSONQuote(KeyUsername) \o <<":">> \o JSONQuote(TrimStart(u))
    \o <<",">> \o JSONQuote(KeyEmail) \o <<":">> \o JSONQuote(e)
    \o <<",">> \o JSONQuote(KeyPassword) \o <<":">> \o JSONQuote(p)
    \o <<"}">>

\* The body of the request, line 20.
RequestBody(u, e, p) ==
    <<"{">> \o JSONQuote(KeyUsername) \o <<":">> \o JSONQuote(u)
    \o <<",">> \o JSONQuote(KeyEmail) \o <<":">> \o JSONQuote(e)
    \o <<",">> \o JSONQuote(KeyPassword) \o <<":">> \o JSONQuote(p)
    \o <<"}">>

-----------------------------------------------------------------------------
(* The constraints of the form's inputs *)

\* type="email": one "@" that is neither first nor last, and no whitespace.
IsEmailShape(s) ==
    \E i \in 2..(Len(s) - 1) :
        /\ s[i] = "@"
        /\ \A j \in (1..Len(s)) \ {i} : s[j] \notin {"@", " "}

\* Mutant of FormValid: the password input has no minLength.
FormValidNoMinLength(u, e, p) ==
    /\ u # <<>>
    /\ e # <<>>
    /\ IsEmailShape(e)
    /\ p # <<>>

\* The browser dispatches the submit event only if every input is valid:
\* required on the three inputs, type="email", minLength={6}.
FormValid(u, e, p) ==
    /\ u # <<>>
    /\ e # <<>>
    /\ IsEmailShape(e)
    /\ p # <<>>
    /\ Len(p) >= MinLength

\* The first input that is invalid, which the browser reports.
FirstInvalid(u, e, p) ==
    IF u = <<>> THEN "username"
    ELSE IF e = <<>> \/ ~IsEmailShape(e) THEN "email"
    ELSE "password"

-----------------------------------------------------------------------------
(* handleSubmit *)

\* Mutant of IsOk: every status below 400 counts as a success.
IsOkBelow400(status) == status >= 200 /\ status < 400

\* res.ok
IsOk(status) == status >= 200 /\ status <= 299

\* Mutant of SuccessCalls: navigate is called before login.
SuccessCallsNavigateFirst(i, data) ==
    << [fn |-> "navigate", sub |-> i, args |-> <<DashboardPath>>],
       [fn |-> "login", sub |-> i, args |-> <<data.user, data.access_token>>] >>

\* The calls of lines 28 and 29, in the order the code makes them.
SuccessCalls(i, data) ==
    << [fn |-> "login", sub |-> i, args |-> <<data.user, data.access_token>>],
       [fn |-> "navigate", sub |-> i, args |-> <<DashboardPath>>] >>

\* Mutant of SetError: an error that is displayed is not replaced.
SetErrorOnce(v) == IF mounted /\ error = "" THEN v ELSE error

\* Mutant of SetError: the update reaches the state of an instance that is
\* no longer rendered.
SetErrorUnmounted(v) == v

\* setError(v) called by a handler that resumes after an await: the error
\* state the update leaves.  React drops an update of an instance that is no
\* longer rendered.
SetError(v) == IF mounted THEN v ELSE error

\* The rendered instance is removed and its state with it.
Unmount ==
    /\ mounted' = FALSE
    /\ username' = <<>>
    /\ email' = <<>>
    /\ password' = <<>>
    /\ error' = ""
    /\ reported' = ""

Init ==
    /\ username = <<>>
    /\ email = <<>>
    /\ password = <<>>
    /\ error = ""
    /\ mounted = TRUE
    /\ location = RegisterPath
    /\ reported = ""
    /\ subs = <<>>
    /\ calls = <<>>
    /\ handled = <<>>

\* onChange of the username input, line 47.
SetUsername(v) ==
    /\ mounted
    /\ v # username
    /\ username' = v
    /\ reported' = ""
    /\ UNCHANGED <<email, password, error, mounted, location, subs,
                   calls, handled>>

\* onChange of the email input, line 58.
SetEmail(v) ==
    /\ mounted
    /\ v # email
    /\ email' = v
    /\ reported' = ""
    /\ UNCHANGED <<username, password, error, mounted, location, subs,
                   calls, handled>>

\* onChange of the password input, line 69.
SetPassword(v) ==
    /\ mounted
    /\ v # password
    /\ password' = v
    /\ reported' = ""
    /\ UNCHANGED <<username, email, error, mounted, location, subs,
                   calls, handled>>

\* The record of a handleSubmit invocation suspended at await fetch(...).
NewSubmission(u, e, p) ==
    [ started |-> Len(handled),
      body |-> RequestBody(u, e, p),
      pc |-> "fetch",
      status |-> 0,
      data |-> NoData ]

\* A click on Register while an input is invalid: the browser reports the
\* input and dispatches no submit event, so handleSubmit does not run.
SubmitBlocked ==
    /\ mounted
    /\ ~FormValid(username, email, password)
    /\ reported' = FirstInvalid(username, email, password)
    /\ UNCHANGED <<username, email, password, error, mounted, location, subs,
                   calls, handled>>

\* A click on Register while every input is valid: the submit event of the
\* form, lines 14 to 21, up to the first await.
Submit ==
    /\ mounted
    /\ Len(subs) < MaxSubs
    /\ FormValid(username, email, password)
    /\ error' = ""
    /\ reported' = ""
    /\ subs' = Append(subs, NewSubmission(username, email, password))
    /\ UNCHANGED <<username, email, password, mounted, location,
                   calls, handled>>

\* The fetch promise of submission i resolves with a response of this status.
FetchResolve(i, status) ==
    /\ subs[i].pc = "fetch"
    /\ subs' = [subs EXCEPT ![i].pc = "json", ![i].status = status]
    /\ UNCHANGED <<username, email, password, error, mounted, location,
                   reported, calls, handled>>

\* Mutant of FetchReject: the rejection is caught and reported as an error.
FetchRejectCaught(i) ==
    /\ subs[i].pc = "fetch"
    /\ subs' = [subs EXCEPT ![i].pc = "rejected"]
    /\ handled' = Append(handled, i)
    /\ error' = IF mounted THEN "E1" ELSE error
    /\ UNCHANGED <<username, email, password, mounted, location, reported,
                   calls>>

\* The fetch promise of submission i rejects: handleSubmit has no try/catch,
\* so its own promise rejects and nobody handles it.
FetchReject(i) ==
    /\ subs[i].pc = "fetch"
    /\ subs' = [subs EXCEPT ![i].pc = "rejected"]
    /\ handled' = Append(handled, i)
    /\ UNCHANGED <<username, email, password, error, mounted, location,
                   reported, calls>>

\* res.json() of submission i rejects: the body is not JSON.
JsonReject(i) ==
    /\ subs[i].pc = "json"
    /\ subs' = [subs EXCEPT ![i].pc = "rejected"]
    /\ handled' = Append(handled, i)
    /\ UNCHANGED <<username, email, password, error, mounted, location,
                   reported, calls>>

\* res.json() of submission i resolves with data: lines 23 to 30.
JsonResolve(i, data) ==
    /\ subs[i].pc = "json"
    /\ handled' = Append(handled, i)
    /\ IF data = Null
       THEN \* data.error and data.user throw a TypeError
            /\ subs' = [subs EXCEPT ![i].pc = "rejected", ![i].data = data]
            /\ UNCHANGED <<username, email, password, error, mounted,
                           location, reported, calls>>
       ELSE IF ~IsOk(subs[i].status)
       THEN /\ subs' = [subs EXCEPT ![i].pc = "done", ![i].data = data]
            /\ error' = SetError(data.error)
            /\ UNCHANGED <<username, email, password, mounted, location,
                           reported, calls>>
       ELSE /\ subs' = [subs EXCEPT ![i].pc = "done", ![i].data = data]
            /\ calls' = calls \o SuccessCalls(i, data)
            /\ location' = DashboardPath
            /\ Unmount

\* The user follows the Login link of lines 83 to 85.
ClickLoginLink ==
    /\ mounted
    /\ location' = LoginPath
    /\ Unmount
    /\ UNCHANGED <<subs, calls, handled>>

Next ==
    \/ \E v \in Usernames : SetUsername(v)
    \/ \E v \in Emails : SetEmail(v)
    \/ \E v \in Passwords : SetPassword(v)
    \/ SubmitBlocked
    \/ Submit
    \/ \E i \in DOMAIN subs : \E s \in Statuses : FetchResolve(i, s)
    \/ \E i \in DOMAIN subs : FetchReject(i)
    \/ \E i \in DOMAIN subs : \E d \in DataValues \cup {Null} : JsonResolve(i, d)
    \/ \E i \in DOMAIN subs : JsonReject(i)
    \/ ClickLoginLink

Spec == Init /\ [][Next]_vars

-----------------------------------------------------------------------------
(* Reading a request body back: the JSON text of an object whose members   *)
(* are strings, as the server's JSON parser reads it.                      *)

ParseFailure == [ok |-> FALSE, val |-> <<>>, next |-> 0]

\* The string whose opening quote precedes position i of t.
RECURSIVE ReadString(_, _, _)
ReadString(t, i, acc) ==
    IF i > Len(t) THEN ParseFailure
    ELSE IF t[i] = "\"" THEN [ok |-> TRUE, val |-> acc, next |-> i + 1]
    ELSE IF t[i] = "\\"
    THEN IF i + 1 > Len(t) THEN ParseFailure
         ELSE ReadString(t, i + 2, Append(acc, t[i + 1]))
    ELSE ReadString(t, i + 1, Append(acc, t[i]))

ParseString(t, i) ==
    IF i <= Len(t) /\ t[i] = "\"" THEN ReadString(t, i + 1, <<>>)
    ELSE ParseFailure

\* The members from position i of t to the closing brace that ends t, as a
\* sequence of <<key, value>> pairs after acc; <<"invalid">> if t is not JSON.
RECURSIVE ParseMembers(_, _, _)
ParseMembers(t, i, acc) ==
    LET k == ParseString(t, i) IN
    IF ~k.ok \/ k.next > Len(t) \/ t[k.next] # ":" THEN <<"invalid">>
    ELSE LET v == ParseString(t, k.next + 1) IN
         IF ~v.ok \/ v.next > Len(t) THEN <<"invalid">>
         ELSE IF t[v.next] = "}" /\ v.next = Len(t)
              THEN Append(acc, <<k.val, v.val>>)
         ELSE IF t[v.next] = ","
              THEN ParseMembers(t, v.next + 1, Append(acc, <<k.val, v.val>>))
         ELSE <<"invalid">>

ParseBody(t) ==
    IF Len(t) >= 2 /\ t[1] = "{" THEN ParseMembers(t, 2, <<>>)
    ELSE <<"invalid">>

\* The members of a body that holds exactly these three values.
Members(u, e, p) ==
    << <<KeyUsername, u>>, <<KeyEmail, e>>, <<KeyPassword, p>> >>

-----------------------------------------------------------------------------
(* Vocabulary of the properties *)

\* A status of the 2xx class.
Is2xx(status) == status \in 200..299

\* What the {error && ...} of line 38 tests.
Truthy(v) == v \notin {"", Undefined}

LoginCall(i, user, token) ==
    [fn |-> "login", sub |-> i, args |-> <<user, token>>]
NavigateCall(i, path) == [fn |-> "navigate", sub |-> i, args |-> <<path>>]

\* The positions of calls at which fn was called for submission i.
CallsOf(fn, i) == {k \in DOMAIN calls : calls[k].fn = fn /\ calls[k].sub = i}

\* This step is the one in which the handler of submission i ends.
Ends(i) ==
    /\ i \in DOMAIN subs
    /\ subs[i].pc \in {"fetch", "json"}
    /\ subs'[i].pc \in {"done", "rejected"}

\* This step is the one that handles the parsed response of submission i.
Handles(i) ==
    /\ i \in DOMAIN subs
    /\ subs[i].pc = "json"
    /\ subs'[i].pc = "done"

\* A body {user, access_token}.
IsSuccessBody(d) ==
    d.kind = "object" /\ d.user # Undefined /\ d.access_token # Undefined
\* A body {error: s}.
IsErrorBody(d) == d.kind = "object" /\ d.error # Undefined

-----------------------------------------------------------------------------
(* C1 *)

\* C1: for every submission answered with a 2xx status and a body
\* {user, access_token}, once the response is handled login has been called
\* exactly once for it, with exactly that user and that access_token, and
\* navigate has been called for it right after, with "/dashboard"; and
\* every navigate call is preceded by a login call for the same submission.
C1_LoginThenNavigate ==
    /\ \A i \in DOMAIN subs :
         (subs[i].pc = "done" /\ Is2xx(subs[i].status)
            /\ IsSuccessBody(subs[i].data))
         => /\ Cardinality(CallsOf("login", i)) = 1
            /\ Cardinality(CallsOf("navigate", i)) = 1
            /\ \E k \in DOMAIN calls :
                 /\ calls[k] = LoginCall(i, subs[i].data.user,
                                         subs[i].data.access_token)
                 /\ k + 1 \in DOMAIN calls
                 /\ calls[k + 1] = NavigateCall(i, "/dashboard")
    /\ \A k \in DOMAIN calls :
         calls[k].fn = "navigate"
         => \E j \in 1..(k - 1) :
              calls[j].fn = "login" /\ calls[j].sub = calls[k].sub

\* A 2xx response with {user: "U1", access_token: "T1"} has been handled.
C1_Witness ==
    \E i \in DOMAIN subs :
        /\ subs[i].pc = "done"
        /\ subs[i].status = 200
        /\ subs[i].data = Obj("U1", "T1", Undefined)
        /\ Len(calls) = 2

-----------------------------------------------------------------------------
(* C5 *)

\* C5: the request a submission issues carries, in its JSON body, exactly
\* the username, email and password the component state holds when
\* handleSubmit is invoked, and no step changes the body of a request that
\* was issued.
C5_BodyIsState ==
    [][ /\ Len(subs') > Len(subs)
           => ParseBody(subs'[Len(subs')].body)
                = Members(username, email, password)
        /\ \A i \in DOMAIN subs : subs'[i].body = subs[i].body ]_vars

\* A request was issued with a username that begins with a space and holds a
\* quote, and the fields were edited afterwards.
C5_Witness ==
    /\ Len(subs) >= 1
    /\ ParseBody(subs[1].body)[1] = <<KeyUsername, <<" ", "a", "\"">> >>
    /\ mounted
    /\ password # ParseBody(subs[1].body)[3][2]

-----------------------------------------------------------------------------
(* C6 *)

\* C6: no step issues a request while the username is empty, the email is
\* empty or the password is shorter than 6 characters.
C6_NoRequestWhenInvalid ==
    [][ Len(subs') > Len(subs)
        => /\ username # <<>>
           /\ email # <<>>
           /\ Len(password) >= 6 ]_vars

\* A click on Register with a password of 5 characters was blocked, and no
\* request has been issued.
C6_Witness ==
    /\ reported = "password"
    /\ Len(password) = 5
    /\ subs = <<>>

-----------------------------------------------------------------------------
(* C2 *)

\* C2 as stated: for every submission answered with a non-2xx status and a
\* body {error: s}, the step that handles the response leaves the error
\* state equal to s and calls neither login nor navigate.
C2_ErrorIsServerError ==
    [][ \A i \in DOMAIN subs :
          (Handles(i) /\ ~Is2xx(subs[i].status) /\ IsErrorBody(subs'[i].data))
          => /\ error' = subs'[i].data.error
             /\ calls' = calls ]_vars

\* C2 as amended: for every submission answered with a non-2xx status and a
\* body {error: s}, the step that handles the response calls neither login
\* nor navigate; it leaves the error state equal to s if the form is still
\* rendered, and leaves it as it was if the form was unmounted meanwhile.
C2_ErrorIsServerErrorWhileMounted ==
    [][ \A i \in DOMAIN subs :
          (Handles(i) /\ ~Is2xx(subs[i].status) /\ IsErrorBody(subs'[i].data))
          => /\ mounted => error' = subs'[i].data.error
             /\ ~mounted => error' = error
             /\ calls' = calls ]_vars

\* A response 300 {error: "E1"} has been handled while the form is rendered.
C2_Witness ==
    /\ mounted
    /\ error = "E1"
    /\ \E i \in DOMAIN subs :
         /\ subs[i].pc = "done"
         /\ subs[i].status = 300
         /\ subs[i].data = Obj(Undefined, Undefined, "E1")
    /\ calls = <<>>

-----------------------------------------------------------------------------
(* C3 *)

\* C3: while the request of a submission is in flight, the error state is
\* empty, so that no error is displayed.
C3_ErrorEmptyInFlight ==
    \A i \in DOMAIN subs : subs[i].pc = "fetch" => ~Truthy(error)

-----------------------------------------------------------------------------
(* C4 *)

\* Two submissions were made, the second before the response of the first
\* was handled, both responses have been handled, each a 2xx response with
\* {user, access_token} or a non-2xx response with {error}, and the user has
\* not left the form by the Login link.
TwoOverlappingHandled ==
    /\ location # "/login"
    /\ Len(subs) = 2
    /\ subs[2].started = 0
    /\ \A i \in {1, 2} :
         /\ subs[i].pc = "done"
         /\ IF Is2xx(subs[i].status) THEN IsSuccessBody(subs[i].data)
                                     ELSE IsErrorBody(subs[i].data)

\* The visible outcome: the error string, whether login was called and
\* whether navigate was called.
Outcome ==
    [ error |-> error,
      login |-> \E k \in DOMAIN calls : calls[k].fn = "login",
      navigated |-> \E k \in DOMAIN calls : calls[k].fn = "navigate" ]

\* The outcome that the response of submission i alone produces.
OutcomeAlone(i) ==
    IF Is2xx(subs[i].status)
    THEN [error |-> "", login |-> TRUE, navigated |-> TRUE]
    ELSE [error |-> subs[i].data.error, login |-> FALSE, navigated |-> FALSE]

\* C4 as stated: after two overlapping submissions, the outcome is the one
\* that the response handled last would produce alone.
C4_LastResponseWins ==
    TwoOverlappingHandled => Outcome = OutcomeAlone(handled[2])

\* C4 as amended: two overlapping submissions issue two requests, and for
\* every order of arrival and every combination of success and failure:
\* login and navigate have been called once for each 2xx response, in the
\* order of arrival, whatever was handled after it; if both responses are
\* failures the outcome is the one the response handled last would produce
\* alone; and if either is a success the form is unmounted, so that no error
\* is displayed.
C4_SuccessesAccumulate ==
    TwoOverlappingHandled
    => LET ok == SelectSeq(handled, LAMBDA i : Is2xx(subs[i].status)) IN
       /\ Len(calls) = 2 * Len(ok)
       /\ \A n \in DOMAIN ok :
            /\ calls[2 * n - 1].fn = "login" /\ calls[2 * n - 1].sub = ok[n]
            /\ calls[2 * n].fn = "navigate" /\ calls[2 * n].sub = ok[n]
       /\ ok = <<>> => Outcome = OutcomeAlone(handled[2])
       /\ ok # <<>> => ~mounted /\ error = ""

\* The first response to arrive was a success and the last one a failure
\* with {error: "E1"}.
C4_Witness ==
    /\ TwoOverlappingHandled
    /\ Is2xx(subs[handled[1]].status)
    /\ ~Is2xx(subs[handled[2]].status)
    /\ subs[handled[2]].data = Obj(Undefined, Undefined, "E1")

-----------------------------------------------------------------------------
(* C7 *)

\* C7: in every step that calls login and navigate, the error state is
\* empty when the calls are made, so that no error is displayed.
C7_ErrorEmptyAtLogin ==
    [][ calls' # calls => ~Truthy(error) ]_vars

-----------------------------------------------------------------------------
(* C8 *)

\* C8: for every submission answered with a non-2xx status, the step that
\* handles the response leaves the form rendered, with a non-empty error
\* state, and leaves username, email and password as they were.
C8_FailureShowsError ==
    [][ \A i \in DOMAIN subs :
          (Handles(i) /\ ~Is2xx(subs[i].status))
          => /\ mounted'
             /\ location' = "/register"
             /\ Truthy(error')
             /\ <<username, email, password>>' = <<username, email, password>>
      ]_vars

-----------------------------------------------------------------------------
(* C9 *)

\* This step is the one in which fetch or res.json() of submission i rejects.
Rejects(i) ==
    /\ Ends(i)
    /\ subs'[i].pc = "rejected"
    /\ subs'[i].data = NoData

-----------------------------------------------------------------------------
(* C10 *)

=============================================================================
